---- MODULE Spec2Model ----
(***************************************************************************)
(* solana-tools-api: the holder aggregation, concentration, whale and      *)
(* token-safety pipeline of src/server.ts, as a state machine of one       *)
(* request that is answered by the ledger (RPC) and market-data            *)
(* (DexScreener) collaborators.                                            *)
(*                                                                         *)
(* Numbers.  JavaScript numbers that carry token amounts are modelled in   *)
(* fixed point: an amount x is the integer x * 10^FracDigits.  Percentages *)
(* are kept as exact fractions [num, den] and compared by cross            *)
(* multiplication.  Floating-point rounding is not modelled.               *)
(* Strings that the code inspects (error messages, dexId) are sequences of *)
(* one-character strings.                                                  *)
(***************************************************************************)
EXTENDS Integers, Sequences, FiniteSets, TLC

\* ---------------------------------------------------------------------------
\* Bounds of the model
\* ---------------------------------------------------------------------------

\* digits of the fixed-point representation of a JavaScript number
FracDigits == 2
\* longest result of the full account scan (getParsedProgramAccounts)
MaxRecords == 3
\* longest result of the largest-accounts query (getTokenLargestAccounts)
MaxLargest == 2
\* longest pair list returned by DexScreener
MaxPairs == 2
\* longest result of getParsedTokenAccountsByOwner
MaxTokenAccounts == 2
\* longest holder list handed to the concentration analyzer on its own
MaxHolders == 11

\* ---------------------------------------------------------------------------
\* Generic helpers
\* ---------------------------------------------------------------------------

RECURSIVE Pow10(_)
Pow10(n) == IF n <= 0 THEN 1 ELSE 10 * Pow10(n - 1)

Min2(a, b) == IF a < b THEN a ELSE b
Max2(a, b) == IF a > b THEN a ELSE b

\* all sequences over S of length 0..n
SeqsUpTo(S, n) == UNION {[1..k -> S] : k \in 0..n}

\* Array.prototype.slice(start, end) for start >= 0; a negative end counts
\* from the end of the array
Slice(s, start, end) ==
    LET e == IF end < 0 THEN Max2(Len(s) + end, 0) ELSE Min2(end, Len(s))
    IN  IF start >= e THEN <<>> ELSE SubSeq(s, start + 1, e)

\* String.prototype.toLowerCase, on the letters the messages use
LowerChar(c) ==
    CASE c = "A" -> "a" [] c = "D" -> "d" [] c = "E" -> "e" [] c = "R" -> "r"
      [] c = "S" -> "s" [] c = "O" -> "o" [] c = "T" -> "t"
      [] OTHER -> c

ToLowerCase(s) == [i \in 1..Len(s) |-> LowerChar(s[i])]

\* String.prototype.includes
Includes(hay, needle) ==
    \E i \in 0..(Len(hay) - Len(needle)) :
        SubSeq(hay, i + 1, i + Len(needle)) = needle

\* ---------------------------------------------------------------------------
\* Errors thrown by the collaborators
\* ---------------------------------------------------------------------------

NeedleScanAborted == <<"s","c","a","n"," ","a","b","o","r","t","e","d">>
NeedleExceeded ==
    <<"a","c","c","u","m","u","l","a","t","e","d"," ","s","c","a","n"," ",
      "r","e","s","u","l","t","s"," ","e","x","c","e","e","d","e","d"," ",
      "t","h","e"," ","l","i","m","i","t">>

\* "RPC: Scan aborted"
MsgScanAborted ==
    <<"R","P","C",":"," ","S","c","a","n"," ","a","b","o","r","t","e","d">>
\* "The accumulated scan results exceeded the limit"
MsgExceeded == <<"T","h","e"," ">> \o NeedleExceeded
\* "fetch failed"
MsgNetwork == <<"f","e","t","c","h"," ","f","a","i","l","e","d">>
\* "scan failed": shares a word with the needle but is no resource-limit signal
MsgScanFailed == <<"s","c","a","n"," ","f","a","i","l","e","d">>
\* a thrown value without a message
MsgNone == <<>>

NoError == [thrown |-> FALSE, message |-> <<>>]
Err(m) == [thrown |-> TRUE, message |-> m]

\* what the full scan may throw
ScanErrors == {Err(MsgScanAborted), Err(MsgExceeded), Err(MsgNetwork),
               Err(MsgScanFailed), Err(MsgNone)}
\* what any other RPC call may throw
RpcErrors == {Err(MsgScanAborted), Err(MsgNetwork)}

\* a test that takes every message about a scan for the rejection
isScanAbortedErrorLoose(e) ==
    Includes(ToLowerCase(e.message), <<"s","c","a","n">>)

isScanAbortedError(e) ==
    LET msg == ToLowerCase(e.message)
    IN  \/ Includes(msg, NeedleScanAborted)
        \/ Includes(msg, NeedleExceeded)

\* ---------------------------------------------------------------------------
\* Query parameters
\* ---------------------------------------------------------------------------

QAbsent == [kind |-> "absent", val |-> 0]
QGarbage == [kind |-> "garbage", val |-> 0]
QNum(v) == [kind |-> "num", val |-> v]

\* a parsed number: NaN, or an integer
NaN == [nan |-> TRUE, val |-> 0]
Number(v) == [nan |-> FALSE, val |-> v]

\* parseInt / parseFloat of a query string that is present
Parse(q) == IF q.kind = "num" THEN Number(q.val) ELSE NaN

\* `str ? parse(str) : dflt`
ParseOr(q, dflt) == IF q.kind = "absent" THEN Number(dflt) ELSE Parse(q)

\* `isNaN(limit) ? dflt : limit`
LimitOr(limit, dflt) == IF limit.nan THEN dflt ELSE limit.val

\* ---------------------------------------------------------------------------
\* Ledger data
\* ---------------------------------------------------------------------------

Owners == {"A", "B"}
NoOwner == "-"

\* the mint accounts the ledger may hold: decimals (shared by every token
\* account of the mint) and supply in raw units
MintAccounts ==
    {[decimals |-> 2, supply |-> 0], [decimals |-> 2, supply |-> 500],
     [decimals |-> 0, supply |-> 500]}
\* balance of a token account, in raw units
AmountRawValues == {0, 100, 200, 300}

\* one element of the scan result: a token account, or an account of another
\* parsed type
TokenAccount(o, raw, dec) ==
    [type |-> "account", owner |-> o, amount |-> raw, decimals |-> dec]
OtherAccount == [type |-> "other", owner |-> NoOwner, amount |-> 0, decimals |-> 0]

ScanRecords(dec) ==
    {TokenAccount(o, raw, dec) : o \in Owners, raw \in AmountRawValues}
        \cup {OtherAccount}

\* Number(raw) / Math.pow(10, decimals), in fixed point
Normalize(raw, decimals) == (raw * Pow10(FracDigits)) \div Pow10(decimals)

\* supply as the handlers compute it from the mint account
SupplyOf(supplyRaw, decimals) ==
    IF decimals >= 0 THEN Normalize(supplyRaw, decimals)
    ELSE supplyRaw * Pow10(FracDigits)

\* ---------------------------------------------------------------------------
\* aggregateHoldersForMint: the pure part
\* ---------------------------------------------------------------------------

HolderAgg(o, ui) == [owner |-> o, uiAmount |-> ui]

\* holdersMap.get(owner) / holdersMap.set(owner, ...): a Map keeps the
\* insertion order of its keys, so it is a sequence of HolderAgg
MapHas(map, o) == \E i \in 1..Len(map) : map[i].owner = o

\* an accumulation that overwrites the previous amount of a repeated owner
AccumulateOverwriting(map, o, ui) ==
    IF MapHas(map, o)
    THEN [i \in 1..Len(map) |->
            IF map[i].owner = o THEN HolderAgg(o, ui) ELSE map[i]]
    ELSE Append(map, HolderAgg(o, ui))

Accumulate(map, o, ui) ==
    IF MapHas(map, o)
    THEN [i \in 1..Len(map) |->
            IF map[i].owner = o
            THEN HolderAgg(o, map[i].uiAmount + ui)
            ELSE map[i]]
    ELSE Append(map, HolderAgg(o, ui))

\* an insertion that puts a holder ahead of the holders of the same amount
InsertDescBeforeTies(sorted, h) ==
    LET ahead == Cardinality({i \in 1..Len(sorted) :
                                 sorted[i].uiAmount > h.uiAmount})
    IN  SubSeq(sorted, 1, ahead) \o <<h>> \o SubSeq(sorted, ahead + 1, Len(sorted))

\* Array.prototype.sort((a, b) => b.uiAmount - a.uiAmount): stable, descending
InsertDesc(sorted, h) ==
    LET ahead == Cardinality({i \in 1..Len(sorted) :
                                 sorted[i].uiAmount >= h.uiAmount})
    IN  SubSeq(sorted, 1, ahead) \o <<h>> \o SubSeq(sorted, ahead + 1, Len(sorted))

RECURSIVE SortDescFrom(_, _, _)
SortDescFrom(s, i, sorted) ==
    IF i > Len(s) THEN sorted
    ELSE SortDescFrom(s, i + 1, InsertDesc(sorted, s[i]))

SortDesc(s) == SortDescFrom(s, 1, <<>>)

\* the loop body without the test that skips a zero amount
ScanStepKeepingZero(map, ta) ==
    IF ta.type # "account" THEN map
    ELSE Accumulate(map, ta.owner, Normalize(ta.amount, ta.decimals))

\* the loop over the scan result
ScanStep(map, ta) ==
    IF ta.type # "account" THEN map
    ELSE LET uiAmount == Normalize(ta.amount, ta.decimals)
         IN  IF uiAmount = 0 THEN map
             ELSE Accumulate(map, ta.owner, uiAmount)

RECURSIVE ScanLoop(_, _, _)
ScanLoop(tokenAccounts, i, map) ==
    IF i > Len(tokenAccounts) THEN map
    ELSE ScanLoop(tokenAccounts, i + 1, ScanStep(map, tokenAccounts[i]))

\* a holdersMap that lives outside the function: a call goes on with what the
\* call before it left in the map
holdersMapKept(left) == left

\* `const holdersMap = new Map()` inside aggregateHoldersForMint: whatever map
\* an earlier or a concurrent call filled (left), a call starts with its own
\* empty one
holdersMap(left) == <<>>

\* the primary path from the scan result on, filling the map it is given
AggregateScanInto(map, tokenAccounts) ==
    SortDesc(ScanLoop(tokenAccounts, 1, map))

AggregateScan(tokenAccounts) ==
    AggregateScanInto(holdersMap(<<>>), tokenAccounts)

\* the fallback: the largest accounts and the parsed account of each
InfoNull == [hasValue |-> FALSE, program |-> "-", owner |-> NoOwner]
InfoOther == [hasValue |-> TRUE, program |-> "system", owner |-> NoOwner]
InfoToken(o) == [hasValue |-> TRUE, program |-> "spl-token", owner |-> o]

LookupInfos == {InfoNull, InfoOther} \cup {InfoToken(o) : o \in Owners}

\* uiAmount of a largest account; 0 stands for null as well (`v.uiAmount || 0`)
LargestAmounts == {0, 1 * Pow10(FracDigits), 3 * Pow10(FracDigits)}

LargestStep(map, v, info) ==
    IF v.uiAmount = 0 THEN map
    ELSE IF ~info.hasValue \/ info.program # "spl-token" THEN map
    ELSE Accumulate(map, info.owner, v.uiAmount)

RECURSIVE LargestLoop(_, _, _, _)
LargestLoop(values, parsedInfos, idx, map) ==
    IF idx > Len(values) THEN map
    ELSE LargestLoop(values, parsedInfos, idx + 1,
                     LargestStep(map, values[idx], parsedInfos[idx]))

\* the fallback from the resolved lookups on, filling the map it is given
AggregateLargestInto(map, values, parsedInfos) ==
    SortDesc(LargestLoop(values, parsedInfos, 1, map))

AggregateLargest(values, parsedInfos) ==
    AggregateLargestInto(holdersMap(<<>>), values, parsedInfos)

\* ---------------------------------------------------------------------------
\* Concentration and whales
\* ---------------------------------------------------------------------------

RECURSIVE SumAmounts(_)
SumAmounts(hs) ==
    IF hs = <<>> THEN 0 ELSE Head(hs).uiAmount + SumAmounts(Tail(hs))

RECURSIVE GCD(_, _)
GCD(a, b) == IF b = 0 THEN a ELSE GCD(b, a % b)

\* a percentage part / supply * 100 (supply > 0) as an exact fraction in
\* lowest terms
Pct(part, supply) ==
    LET g == GCD(part * 100, supply)
    IN  [num |-> (part * 100) \div g, den |-> supply \div g]
PctZero == [num |-> 0, den |-> 1]

PctLeq(p, q) == p.num * q.den <= q.num * p.den
PctIsZero(p) == p.num = 0

\* a percentage that divides by the number of holders asked for, not by supply
pctOfSupplyPerHolder(holders, supply, count) ==
    IF supply <= 0 THEN PctZero
    ELSE Pct(SumAmounts(Slice(holders, 0, count)), count * supply)

\* a percentage over one holder too few
pctOfSupplyOffByOne(holders, supply, count) ==
    IF supply <= 0 THEN PctZero
    ELSE Pct(SumAmounts(Slice(holders, 0, count - 1)), supply)

\* pctOfSupply(count) over a holder list
pctOfSupply(holders, supply, count) ==
    IF supply <= 0 THEN PctZero
    ELSE Pct(SumAmounts(Slice(holders, 0, count)), supply)

Concentration(holders, supply) ==
    [top1 |-> pctOfSupply(holders, supply, 1),
     top5 |-> pctOfSupply(holders, supply, 5),
     top10 |-> pctOfSupply(holders, supply, 10)]

\* a percentageOfSupply that is the share itself, not multiplied by 100
WithPctAsShare(h, supply) ==
    [owner |-> h.owner, uiAmount |-> h.uiAmount,
     percentageOfSupply |->
        IF supply > 0 THEN Pct(h.uiAmount, supply * 100) ELSE PctZero]

\* percentageOfSupply of one holder in a response
WithPct(h, supply) ==
    [owner |-> h.owner, uiAmount |-> h.uiAmount,
     percentageOfSupply |->
        IF supply > 0 THEN Pct(h.uiAmount, supply) ELSE PctZero]

MapWithPct(hs, supply) == [i \in 1..Len(hs) |-> WithPct(hs[i], supply)]

\* the whale filter without the guard on the supply
IsWhaleUnguarded(h, supply, minPct) ==
    /\ ~minPct.nan
    /\ h.uiAmount * 100 >= minPct.val * supply

\* a whale filter that leaves out the holder whose share equals the threshold
IsWhaleStrict(h, supply, minPct) ==
    IF supply <= 0 THEN FALSE
    ELSE /\ ~minPct.nan
         /\ h.uiAmount * 100 > minPct.val * supply

\* the whale filter of whale-tracker; minPct is a parsed number
\* (Array.prototype.filter is SelectSeq: it keeps the order of what it keeps)
IsWhale(h, supply, minPct) ==
    IF supply <= 0 THEN FALSE
    ELSE /\ ~minPct.nan
         /\ h.uiAmount * 100 >= minPct.val * supply

Whales(allHolders, supply, minPct, limit) ==
    LET Keep(h) == IsWhale(h, supply, minPct)
    IN  Slice(SortDesc(SelectSeq(allHolders, Keep)), 0, LimitOr(limit, 20))

\* the min filter of holder-info; minAmount is a parsed number of whole tokens
FilterMin(allHolders, minAmount) ==
    LET Keep(h) == h.uiAmount >= minAmount.val * Pow10(FracDigits)
    IN  IF ~minAmount.nan /\ minAmount.val > 0
        THEN SelectSeq(allHolders, Keep)
        ELSE allHolders

\* ---------------------------------------------------------------------------
\* token-safety-check: the pure part
\* ---------------------------------------------------------------------------

DexRaydium == <<"R","a","y","d","i","u","m">>
DexOrca == <<"O","r","c","a">>
IdRaydium == <<"r","a","y","d","i","u","m">>

\* liquidity.usd of a pair, when DexScreener reports one
LiquidityValues == {200, 800, 5000}

\* a pair without its address: chain, venue, liquidity (hasUsd = FALSE models
\* a missing `liquidity` or `liquidity.usd`)
PairShape(chain, dex, hasUsd, usd) ==
    [chainId |-> chain, dexId |-> dex, hasUsd |-> hasUsd, usd |-> usd]

PairShapes ==
    {PairShape("solana", DexRaydium, TRUE, u) : u \in LiquidityValues}
      \cup {PairShape("solana", DexRaydium, FALSE, 0),
            PairShape("solana", DexOrca, TRUE, 5000),
            PairShape("ethereum", DexRaydium, TRUE, 5000)}

\* the pair list of a reply: the i-th pair has pairAddress i
PairList(shapes) ==
    [i \in 1..Len(shapes) |->
        [chainId |-> shapes[i].chainId, dexId |-> shapes[i].dexId,
         hasUsd |-> shapes[i].hasUsd, usd |-> shapes[i].usd,
         pairAddress |-> i]]

\* `p.liquidity?.usd || 0`
LiquidityUsd(p) == IF p.hasUsd THEN p.usd ELSE 0

IsRaydiumPair(p) ==
    p.chainId = "solana" /\ ToLowerCase(p.dexId) = IdRaydium

RaydiumPairs(pairs) == SelectSeq(pairs, IsRaydiumPair)

RECURSIVE TotalLiquidityUsd(_)
TotalLiquidityUsd(raydiumPairs) ==
    IF raydiumPairs = <<>> THEN 0
    ELSE LiquidityUsd(Head(raydiumPairs)) + TotalLiquidityUsd(Tail(raydiumPairs))

\* the reduce that picks the largest pool; 0 is null
NoPool == [pairAddress |-> 0, liquidityUsd |-> 0]
PoolOf(p) == [pairAddress |-> p.pairAddress, liquidityUsd |-> LiquidityUsd(p)]

\* a step that lets a later pool of the same liquidity take the place
LargestStepPoolLastWins(acc, p) ==
    IF acc.pairAddress = 0 THEN PoolOf(p)
    ELSE IF LiquidityUsd(p) >= acc.liquidityUsd THEN PoolOf(p) ELSE acc

LargestStepPool(acc, p) ==
    IF acc.pairAddress = 0 THEN PoolOf(p)
    ELSE IF LiquidityUsd(p) > acc.liquidityUsd THEN PoolOf(p) ELSE acc

RECURSIVE LargestPoolFrom(_, _, _)
LargestPoolFrom(raydiumPairs, i, acc) ==
    IF i > Len(raydiumPairs) THEN acc
    ELSE LargestPoolFrom(raydiumPairs, i + 1,
                         LargestStepPool(acc, raydiumPairs[i]))

LargestPool(raydiumPairs) == LargestPoolFrom(raydiumPairs, 1, NoPool)

Reason(topic, text, count, total) ==
    [topic |-> topic, text |-> text, count |-> count, total |-> total]

\* reasons that say nothing about pools when there is none
ReasonsWithoutNoPool(immutableMint, canFreeze, hasRaydiumPool, poolCount, totalLiquidityUsd) ==
    LET r1 == IF immutableMint
              THEN Reason("mint", "Mint authority revoked (immutable supply).", 0, 0)
              ELSE Reason("mint", "Mint authority is still set (mintable token).", 0, 0)
        r2 == IF ~canFreeze
              THEN Reason("freeze", "Freeze authority revoked (no freeze control).", 0, 0)
              ELSE Reason("freeze", "Freeze authority is still set.", 0, 0)
        r3 == Reason("pool", "Raydium pools found", poolCount, totalLiquidityUsd)
    IN  IF hasRaydiumPool THEN <<r1, r2, r3>> ELSE <<r1, r2>>

Reasons(immutableMint, canFreeze, hasRaydiumPool, poolCount, totalLiquidityUsd) ==
    LET r1 == IF immutableMint
              THEN Reason("mint", "Mint authority revoked (immutable supply).", 0, 0)
              ELSE Reason("mint", "Mint authority is still set (mintable token).", 0, 0)
        r2 == IF ~canFreeze
              THEN Reason("freeze", "Freeze authority revoked (no freeze control).", 0, 0)
              ELSE Reason("freeze", "Freeze authority is still set.", 0, 0)
        r3 == IF hasRaydiumPool
              THEN Reason("pool", "Raydium pools found", poolCount, totalLiquidityUsd)
              ELSE Reason("pool", "No Raydium pools found on DexScreener.", 0, 0)
    IN  Append(Append(Append(<<>>, r1), r2), r3)

VeryLowLiquidity(totalLiquidityUsd) == totalLiquidityUsd < 200

\* a low-liquidity test that takes 1000 itself for low
LowLiquidityInclusive(totalLiquidityUsd) ==
    IF totalLiquidityUsd < 200 THEN TRUE
    ELSE IF totalLiquidityUsd <= 1000 THEN TRUE
    ELSE FALSE

LowLiquidity(totalLiquidityUsd) ==
    IF totalLiquidityUsd < 200 THEN TRUE
    ELSE IF totalLiquidityUsd < 1000 THEN TRUE
    ELSE FALSE

\* the rules in the wrong order: medium is tried before high
RiskLevelMediumFirst(hasRaydiumPool, veryLowLiquidity, lowLiquidity, immutableMint, canFreeze) ==
    IF lowLiquidity \/ canFreeze THEN "medium"
    ELSE IF ~hasRaydiumPool \/ veryLowLiquidity \/ ~immutableMint THEN "high"
    ELSE "low"

\* the medium rule with the freeze test negated
RiskLevelFreezeNegated(hasRaydiumPool, veryLowLiquidity, lowLiquidity, immutableMint, canFreeze) ==
    IF ~hasRaydiumPool \/ veryLowLiquidity \/ ~immutableMint THEN "high"
    ELSE IF lowLiquidity \/ ~canFreeze THEN "medium"
    ELSE "low"

RiskLevel(hasRaydiumPool, veryLowLiquidity, lowLiquidity, immutableMint, canFreeze) ==
    IF ~hasRaydiumPool \/ veryLowLiquidity \/ ~immutableMint THEN "high"
    ELSE IF lowLiquidity \/ canFreeze THEN "medium"
    ELSE "low"

NoAuthority == "null"
AuthorityValues == {NoAuthority, "Auth"}

\* the body of a successful token-safety-check response
SafetyBody(m, pairs) ==
    LET raydiumPairs == RaydiumPairs(pairs)
        totalLiquidityUsd == TotalLiquidityUsd(raydiumPairs)
        immutableMint == m.mintAuthority = NoAuthority
        canFreeze == m.freezeAuthority # NoAuthority
        hasRaydiumPool == Len(raydiumPairs) > 0
        veryLowLiquidity == VeryLowLiquidity(totalLiquidityUsd)
        lowLiquidity == LowLiquidity(totalLiquidityUsd)
    IN  [kind |-> "safety",
         supply |-> m.supply,
         totalPools |-> Len(pairs),
         totalLiquidityUsd |-> totalLiquidityUsd,
         largestPool |-> LargestPool(raydiumPairs),
         immutableMint |-> immutableMint,
         canFreeze |-> canFreeze,
         hasRaydiumPool |-> hasRaydiumPool,
         lowLiquidity |-> lowLiquidity,
         veryLowLiquidity |-> veryLowLiquidity,
         riskLevel |-> RiskLevel(hasRaydiumPool, veryLowLiquidity, lowLiquidity,
                                 immutableMint, canFreeze),
         reasons |-> Reasons(immutableMint, canFreeze, hasRaydiumPool,
                             Len(raydiumPairs), totalLiquidityUsd)]

\* ---------------------------------------------------------------------------
\* wallet-info, token-info and cbs-metrics: the bodies of the responses
\* ---------------------------------------------------------------------------

LamportsPerSol == 1000000000
\* balances of a wallet, in lamports
LamportValues == {0, 1500000000}

\* lamports / LAMPORTS_PER_SOL, in fixed point
SolOf(lamports) == lamports \div (LamportsPerSol \div Pow10(FracDigits))

\* the token accounts of a wallet: accounts of the mints "M" and "N", or an
\* account of another parsed type
WalletRecords ==
    {[type |-> "account", mint |-> m, amount |-> raw, decimals |-> 2] :
        m \in {"M", "N"}, raw \in {0, 100, 300}}
      \cup {[type |-> "other", mint |-> "-", amount |-> 0, decimals |-> 0]}

\* the map of wallet-info: null for what is no token account or holds nothing;
\* the i-th token account has pubkey i
WalletToken(ta, i) ==
    LET uiAmount == Normalize(ta.amount, ta.decimals)
    IN  [isNull |-> ta.type # "account" \/ uiAmount = 0,
         mint |-> ta.mint, tokenAccount |-> i, amountRaw |-> ta.amount,
         uiAmount |-> uiAmount, decimals |-> ta.decimals]

\* .map(...).filter((t) => t !== null).sort(descending by uiAmount)
WalletTokens(value) ==
    LET NotNull(t) == ~t.isNull
    IN  SortDesc(SelectSeq([i \in 1..Len(value) |-> WalletToken(value[i], i)],
                           NotNull))

WalletInfoBody(lamports, value) ==
    [kind |-> "wallet-info", lamports |-> lamports, sol |-> SolOf(lamports),
     tokens |-> WalletTokens(value)]

TokenInfoBody(m, isInitialized) ==
    [kind |-> "token-info", decimals |-> m.decimals, supplyRaw |-> m.supplyRaw,
     supply |-> m.supply, mintAuthority |-> m.mintAuthority,
     freezeAuthority |-> m.freezeAuthority, isInitialized |-> isInitialized]

\* a pair as cbs-metrics lists it: `liquidity?.usd ?? null`
PairSummary(p) ==
    [chainId |-> p.chainId, dexId |-> p.dexId, pairAddress |-> p.pairAddress,
     hasUsd |-> p.hasUsd, usd |-> p.usd]

CbsMetricsBody(pairs) ==
    LET raydiumPairs == RaydiumPairs(pairs)
        NotRaydium(p) == ToLowerCase(p.dexId) # IdRaydium
        others == SelectSeq(pairs, NotRaydium)
    IN  [kind |-> "cbs-metrics",
         totalPools |-> Len(pairs),
         raydiumCount |-> Len(raydiumPairs),
         otherDexCount |-> Len(pairs) - Len(raydiumPairs),
         totalLiquidityUsd |-> TotalLiquidityUsd(raydiumPairs),
         raydium |-> [i \in 1..Len(raydiumPairs) |-> PairSummary(raydiumPairs[i])],
         others |-> [i \in 1..Len(others) |-> PairSummary(others[i])]]

\* ---------------------------------------------------------------------------
\* holder-info and whale-tracker: the bodies of the successful responses
\* ---------------------------------------------------------------------------

\* a note that is the same after a full scan and after the fallback
HolderInfoNoteOfFullScan(usedFallback) ==
    "This endpoint aggregates all token accounts by owner. Percentages are approximate and based on current total supply."

\* the field note of the two responses
HolderInfoNote(usedFallback) ==
    IF usedFallback
    THEN "RPC scan aborted for full holder list. Falling back to largest token accounts only. Percentages are approximate."
    ELSE "This endpoint aggregates all token accounts by owner. Percentages are approximate and based on current total supply."

WhaleTrackerNote(usedFallback) ==
    IF usedFallback
    THEN "RPC scan aborted for full holder list. Whale data is based on largest token accounts only (approximate)."
    ELSE "Whales are wallets holding at least minPct% of total supply, based on aggregated token accounts."

HolderInfoBody(q, m, allHolders, usedFallback) ==
    LET minAmount == ParseOr(q.min, 0)
        limit == ParseOr(q.limit, 100)
        holders == FilterMin(allHolders, minAmount)
        top == Slice(holders, 0, LimitOr(limit, 100))
    IN  [kind |-> "holder-info",
         supply |-> m.supply,
         totalHolders |-> Len(allHolders),
         filteredCount |-> Len(holders),
         topCount |-> Len(top),
         concentration |-> Concentration(holders, m.supply),
         holders |-> MapWithPct(top, m.supply),
         note |-> HolderInfoNote(usedFallback)]

\* a concentration that is taken over the whale list
WhaleConcentrationOverWhales(allHolders, whales, supply) ==
    Concentration(whales, supply)

\* the concentration object of whale-tracker: its pctOfSupply reads allHolders
WhaleConcentration(allHolders, whales, supply) ==
    Concentration(allHolders, supply)

\* minPct, limit and the whale list of a whale-tracker request
WhalesOf(q, m, allHolders) ==
    Whales(allHolders, m.supply, ParseOr(q.minPct, 1), ParseOr(q.limit, 20))

WhaleTrackerBody(q, m, allHolders, usedFallback) ==
    LET minPct == ParseOr(q.minPct, 1)
        whales == WhalesOf(q, m, allHolders)
    IN  [kind |-> "whale-tracker",
         supply |-> m.supply,
         minPct |-> minPct,
         concentration |-> WhaleConcentration(allHolders, whales, m.supply),
         whales |-> MapWithPct(whales, m.supply),
         note |-> WhaleTrackerNote(usedFallback)]

\* ---------------------------------------------------------------------------
\* State: one request and the collaborator calls made for it
\* ---------------------------------------------------------------------------

VARIABLES
    pc,         \* where the handler is: "idle", awaiting a reply, or "done"
    req,        \* the request: endpoint and query parameters
    mint,       \* what the handler read from the mint account
    mintReply,  \* reply of getParsedAccountInfo for the mint
    balance,    \* reply of getBalance
    walletAccounts, \* reply of getParsedTokenAccountsByOwner
    dex,        \* reply of fetchDexPairsForMint
    scan,       \* reply of getParsedProgramAccounts
    largest,    \* reply of getTokenLargestAccounts
    lookups,    \* the promises of the owner lookups, by index
    agg,        \* outcome of aggregateHoldersForMint
    res,        \* the response
    calls       \* number of calls issued, per collaborator operation

vars ==
    <<pc, req, mint, mintReply, balance, walletAccounts, dex, scan, largest,
      lookups, agg, res, calls>>

Endpoints ==
    {"wallet-info", "token-info", "cbs-metrics", "token-safety-check",
     "holder-info", "whale-tracker"}

NoRequest ==
    [endpoint |-> "-", mint |-> "-", min |-> QAbsent, limit |-> QAbsent,
     minPct |-> QAbsent]

\* the query strings a request may carry, by endpoint
MinQueries == {QAbsent, QNum(2)}
HolderLimitQueries == {QAbsent, QNum(1)}
MinPctQueries == {QAbsent, QNum(-1), QNum(0), QNum(20), QNum(50)}
WhaleLimitQueries == {QAbsent, QGarbage, QNum(-1), QNum(1)}

\* a request varies one query parameter and leaves the others absent; the
\* field mint is the identifier of the request (`address` for wallet-info):
\* "valid" is a public key, "invalid" any other non-empty string
Requests(endpoint) ==
    CASE endpoint = "holder-info" ->
            {[endpoint |-> endpoint, mint |-> "valid", min |-> a,
              limit |-> QAbsent, minPct |-> QAbsent] : a \in MinQueries}
              \cup
            {[endpoint |-> endpoint, mint |-> "valid", min |-> QAbsent,
              limit |-> l, minPct |-> QAbsent] : l \in HolderLimitQueries}
      [] endpoint = "whale-tracker" ->
            {[endpoint |-> endpoint, mint |-> "valid", min |-> QAbsent,
              limit |-> QAbsent, minPct |-> p] : p \in MinPctQueries}
              \cup
            {[endpoint |-> endpoint, mint |-> "valid", min |-> QAbsent,
              limit |-> l, minPct |-> QAbsent] : l \in WhaleLimitQueries}
      [] endpoint = "cbs-metrics" ->
            {[endpoint |-> endpoint, mint |-> id, min |-> QAbsent,
              limit |-> QAbsent, minPct |-> QAbsent] : id \in {"valid", "invalid"}}
      [] OTHER ->
            {[endpoint |-> endpoint, mint |-> "valid", min |-> QAbsent,
              limit |-> QAbsent, minPct |-> QAbsent]}

NoMint ==
    [decimals |-> 0, supplyRaw |-> 0, supply |-> 0,
     mintAuthority |-> NoAuthority, freezeAuthority |-> NoAuthority]

NoReply == [outcome |-> "none", value |-> <<>>, error |-> NoError]
Returned(v) == [outcome |-> "return", value |-> v, error |-> NoError]
Threw(e) == [outcome |-> "throw", value |-> <<>>, error |-> e]

NoAgg ==
    [outcome |-> "none", holders |-> <<>>, usedFallback |-> FALSE,
     error |-> NoError]
AggReturn(holders, usedFallback) ==
    [outcome |-> "return", holders |-> holders, usedFallback |-> usedFallback,
     error |-> NoError]
\* a failure that is wrapped into a new error instead of being rethrown
AggThrowWrapped(e) ==
    [outcome |-> "throw", holders |-> <<>>, usedFallback |-> FALSE,
     error |-> Err(MsgNetwork)]

AggThrow(e) ==
    [outcome |-> "throw", holders |-> <<>>, usedFallback |-> FALSE, error |-> e]

NoBody == [kind |-> "none"]
NoResponse == [status |-> 0, error |-> "", body |-> NoBody]
Json(body) == [status |-> 200, error |-> "", body |-> body]
Fail(status, error) == [status |-> status, error |-> error, body |-> NoBody]

NoCalls ==
    [balance |-> 0, tokenAccounts |-> 0, mintLookup |-> 0, dex |-> 0,
     scan |-> 0, largest |-> 0, ownerLookup |-> 0, responses |-> 0]

Issue(op, n) == [calls EXCEPT ![op] = @ + n]
Answer(c) == [c EXCEPT !.responses = @ + 1]

Pending == [st |-> "pending", info |-> InfoNull, error |-> NoError]
Fulfilled(info) == [st |-> "fulfilled", info |-> info, error |-> NoError]
Rejected(e) == [st |-> "rejected", info |-> InfoNull, error |-> e]

Init ==
    /\ pc = "idle"
    /\ req = NoRequest
    /\ mint = NoMint
    /\ mintReply = NoReply
    /\ balance = NoReply
    /\ walletAccounts = NoReply
    /\ dex = NoReply
    /\ scan = NoReply
    /\ largest = NoReply
    /\ lookups = <<>>
    /\ agg = NoAgg
    /\ res = NoResponse
    /\ calls = NoCalls

\* ---------------------------------------------------------------------------
\* The handlers, one action per reply they await
\* ---------------------------------------------------------------------------

\* the catch block of a handler
CatchSafety(e) == Fail(500, "Failed to run token safety check")

CatchHolders(endpoint, e) ==
    IF isScanAbortedError(e) THEN Fail(400, "SCAN_ABORTED")
    ELSE IF endpoint = "holder-info" THEN Fail(500, "Failed to fetch holder info")
    ELSE Fail(500, "Failed to fetch whale tracker info")

Catch(endpoint, e) ==
    CASE endpoint = "wallet-info" -> Fail(500, "Failed to fetch wallet info")
      [] endpoint = "token-info" -> Fail(500, "Failed to fetch token info")
      [] endpoint = "cbs-metrics" -> Fail(500, "Failed to fetch Dex metrics")
      [] endpoint = "token-safety-check" -> CatchSafety(e)
      [] OTHER -> CatchHolders(endpoint, e)

\* the rest of holder-info / whale-tracker once aggregateHoldersForMint is over
AfterAggregate(q, m, a) ==
    IF a.outcome = "throw" THEN CatchHolders(q.endpoint, a.error)
    ELSE IF q.endpoint = "holder-info"
         THEN Json(HolderInfoBody(q, m, a.holders, a.usedFallback))
         ELSE Json(WhaleTrackerBody(q, m, a.holders, a.usedFallback))

\* the identifier is checked for being there by every handler, and for being
\* a public key (`new PublicKey`) by every handler but cbs-metrics
ChecksPublicKey(endpoint) == endpoint # "cbs-metrics"

MissingParam(endpoint) ==
    IF endpoint = "wallet-info" THEN "Missing address query param"
    ELSE "Missing mint query param"

InvalidParam(endpoint) ==
    IF endpoint = "wallet-info" THEN "Invalid Solana address"
    ELSE "Invalid mint address"

\* a request without the identifier, or with one that is no public key
RejectRequest ==
    /\ pc = "idle"
    /\ \E endpoint \in Endpoints, how \in {"missing", "invalid"} :
        /\ how = "invalid" => ChecksPublicKey(endpoint)
        /\ req' = [NoRequest EXCEPT !.endpoint = endpoint, !.mint = how]
        /\ res' = IF how = "missing"
                  THEN Fail(400, MissingParam(endpoint))
                  ELSE Fail(400, InvalidParam(endpoint))
    /\ calls' = Answer(calls)
    /\ pc' = "done"
    /\ UNCHANGED <<mint, mintReply, balance, walletAccounts, dex, scan, largest,
                   lookups, agg>>

\* the first collaborator call of a handler
FirstCall(endpoint) ==
    CASE endpoint = "wallet-info" -> "balance"
      [] endpoint = "cbs-metrics" -> "dex"
      [] OTHER -> "mintLookup"

\* a request that passes the checks of its handler: the handler makes its
\* first call
AcceptRequest ==
    /\ pc = "idle"
    /\ \E endpoint \in Endpoints :
        /\ req' \in Requests(endpoint)
        /\ calls' = Issue(FirstCall(endpoint), 1)
        /\ pc' = FirstCall(endpoint)
    /\ UNCHANGED <<mint, mintReply, balance, walletAccounts, dex, scan, largest,
                   lookups, agg, res>>

\* `parsed.value` of a reply that found no account, or an account that is
\* not an SPL mint
NoAccount == [hasValue |-> FALSE, isMint |-> FALSE, decimals |-> 0, supply |-> 0]
NotAMint == [hasValue |-> TRUE, isMint |-> FALSE, decimals |-> 0, supply |-> 0]
\* a reply that found the mint
MintAccount(account) ==
    [hasValue |-> TRUE, isMint |-> TRUE, decimals |-> account.decimals,
     supply |-> account.supply]

\* getParsedAccountInfo(mintKey) throws
MintThrows ==
    /\ pc = "mintLookup"
    /\ \E e \in RpcErrors :
        /\ mintReply' = Threw(e)
        /\ res' = Catch(req.endpoint, e)
    /\ calls' = Answer(calls)
    /\ pc' = "done"
    /\ UNCHANGED <<req, mint, balance, walletAccounts, dex, scan, largest,
                   lookups, agg>>

\* a handler whose 404 branch lacks its return: it responds, goes on to read
\* the data of the missing account, and its catch block responds again
MintNotFoundFallsThrough ==
    /\ pc = "mintLookup"
    /\ mintReply' = Returned(NoAccount)
    /\ res' = Catch(req.endpoint, Err(MsgNone))
    /\ calls' = Answer(Answer(calls))
    /\ pc' = "done"
    /\ UNCHANGED <<req, mint, balance, walletAccounts, dex, scan, largest,
                   lookups, agg>>

\* getParsedAccountInfo(mintKey) finds no account
MintNotFound ==
    /\ pc = "mintLookup"
    /\ mintReply' = Returned(NoAccount)
    /\ res' = Fail(404, "Mint account not found")
    /\ calls' = Answer(calls)
    /\ pc' = "done"
    /\ UNCHANGED <<req, mint, balance, walletAccounts, dex, scan, largest,
                   lookups, agg>>

\* a handler that sends no response for an account that is no SPL mint and goes
\* on with it
MintNotAMintGoesOn ==
    /\ pc = "mintLookup"
    /\ mintReply' = Returned(NotAMint)
    /\ IF req.endpoint = "token-safety-check"
       THEN calls' = Issue("dex", 1) /\ pc' = "dex"
       ELSE calls' = Issue("scan", 1) /\ pc' = "scan"
    /\ UNCHANGED <<req, mint, balance, walletAccounts, dex, scan, largest,
                   lookups, agg, res>>

\* getParsedAccountInfo(mintKey) finds an account that is no SPL mint
MintNotAMint ==
    /\ pc = "mintLookup"
    /\ mintReply' = Returned(NotAMint)
    /\ res' = Fail(400, "Account is not an SPL mint")
    /\ calls' = Answer(calls)
    /\ pc' = "done"
    /\ UNCHANGED <<req, mint, balance, walletAccounts, dex, scan, largest,
                   lookups, agg>>

\* getParsedAccountInfo(mintKey) finds the mint: token-safety-check goes on to
\* DexScreener, the other two to the full scan of aggregateHoldersForMint
MintFound ==
    /\ pc = "mintLookup"
    /\ \E account \in MintAccounts :
        LET decimals == account.decimals
            supplyRaw == account.supply
            supply == SupplyOf(supplyRaw, decimals)
        IN  /\ mintReply' = Returned(MintAccount(account))
            /\ CASE req.endpoint = "token-info" ->
                    \E ma \in AuthorityValues, fa \in AuthorityValues,
                       isInitialized \in BOOLEAN :
                        /\ mint' = [decimals |-> decimals, supplyRaw |-> supplyRaw,
                                    supply |-> supply,
                                    mintAuthority |-> ma, freezeAuthority |-> fa]
                        /\ res' = Json(TokenInfoBody(mint', isInitialized))
                        /\ calls' = Answer(calls)
                        /\ pc' = "done"
                 [] req.endpoint = "token-safety-check" ->
                    /\ \E ma \in AuthorityValues, fa \in AuthorityValues :
                        mint' = [decimals |-> decimals, supplyRaw |-> supplyRaw,
                                 supply |-> supply,
                                 mintAuthority |-> ma, freezeAuthority |-> fa]
                    /\ calls' = Issue("dex", 1)
                    /\ pc' = "dex"
                    /\ UNCHANGED res
                 [] OTHER ->
                    /\ mint' = [NoMint EXCEPT !.decimals = decimals,
                                              !.supplyRaw = supplyRaw,
                                              !.supply = supply]
                    /\ calls' = Issue("scan", 1)
                    /\ pc' = "scan"
                    /\ UNCHANGED res
    /\ UNCHANGED <<req, balance, walletAccounts, dex, scan, largest, lookups, agg>>

\* getBalance returns: wallet-info asks for the token accounts of the wallet
BalanceReturns ==
    /\ pc = "balance"
    /\ \E lamports \in LamportValues : balance' = Returned(lamports)
    /\ calls' = Issue("tokenAccounts", 1)
    /\ pc' = "tokenAccounts"
    /\ UNCHANGED <<req, mint, mintReply, walletAccounts, dex, scan, largest,
                   lookups, agg, res>>

\* getBalance throws
BalanceThrows ==
    /\ pc = "balance"
    /\ \E e \in RpcErrors :
        /\ balance' = Threw(e)
        /\ res' = Catch(req.endpoint, e)
    /\ calls' = Answer(calls)
    /\ pc' = "done"
    /\ UNCHANGED <<req, mint, mintReply, walletAccounts, dex, scan, largest,
                   lookups, agg>>

\* getParsedTokenAccountsByOwner returns
TokenAccountsReturn ==
    /\ pc = "tokenAccounts"
    /\ \E value \in SeqsUpTo(WalletRecords, MaxTokenAccounts) :
        /\ walletAccounts' = Returned(value)
        /\ res' = Json(WalletInfoBody(balance.value, value))
    /\ calls' = Answer(calls)
    /\ pc' = "done"
    /\ UNCHANGED <<req, mint, mintReply, balance, dex, scan, largest, lookups,
                   agg>>

\* getParsedTokenAccountsByOwner throws
TokenAccountsThrow ==
    /\ pc = "tokenAccounts"
    /\ \E e \in RpcErrors :
        /\ walletAccounts' = Threw(e)
        /\ res' = Catch(req.endpoint, e)
    /\ calls' = Answer(calls)
    /\ pc' = "done"
    /\ UNCHANGED <<req, mint, mintReply, balance, dex, scan, largest, lookups,
                   agg>>

\* fetchDexPairsForMint returns the pair list
DexReturns ==
    /\ pc = "dex"
    /\ \E shapes \in SeqsUpTo(PairShapes, MaxPairs) :
        /\ dex' = Returned(PairList(shapes))
        /\ res' = IF req.endpoint = "cbs-metrics"
                  THEN Json(CbsMetricsBody(PairList(shapes)))
                  ELSE Json(SafetyBody(mint, PairList(shapes)))
    /\ calls' = Answer(calls)
    /\ pc' = "done"
    /\ UNCHANGED <<req, mint, mintReply, balance, walletAccounts, scan, largest,
                   lookups, agg>>

\* fetchDexPairsForMint throws (HTTP status not ok, or a network failure)
DexThrows ==
    /\ pc = "dex"
    /\ dex' = Threw(Err(MsgNetwork))
    /\ res' = Catch(req.endpoint, Err(MsgNetwork))
    /\ calls' = Answer(calls)
    /\ pc' = "done"
    /\ UNCHANGED <<req, mint, mintReply, balance, walletAccounts, scan, largest,
                   lookups, agg>>

\* the full scan returns: the primary path of aggregateHoldersForMint
ScanReturns ==
    /\ pc = "scan"
    /\ \E tokenAccounts \in SeqsUpTo(ScanRecords(mint.decimals), MaxRecords) :
        LET a == AggReturn(AggregateScan(tokenAccounts), FALSE)
        IN  /\ scan' = Returned(tokenAccounts)
            /\ agg' = a
            /\ res' = AfterAggregate(req, mint, a)
    /\ calls' = Answer(calls)
    /\ pc' = "done"
    /\ UNCHANGED <<req, mint, mintReply, balance, walletAccounts, dex, largest,
                   lookups>>

\* the full scan throws: rethrown unless it is the resource-limit rejection,
\* on which the fallback asks for the largest accounts
ScanThrows ==
    /\ pc = "scan"
    /\ \E e \in ScanErrors :
        /\ scan' = Threw(e)
        /\ IF ~isScanAbortedError(e)
           THEN /\ agg' = AggThrow(e)
                /\ res' = AfterAggregate(req, mint, AggThrow(e))
                /\ calls' = Answer(calls)
                /\ pc' = "done"
           ELSE /\ calls' = Issue("largest", 1)
                /\ pc' = "largest"
                /\ UNCHANGED <<agg, res>>
    /\ UNCHANGED <<req, mint, mintReply, balance, walletAccounts, dex, largest,
                   lookups>>

\* getTokenLargestAccounts throws
LargestThrows ==
    /\ pc = "largest"
    /\ \E e \in RpcErrors :
        /\ largest' = Threw(e)
        /\ agg' = AggThrow(e)
        /\ res' = AfterAggregate(req, mint, AggThrow(e))
    /\ calls' = Answer(calls)
    /\ pc' = "done"
    /\ UNCHANGED <<req, mint, mintReply, balance, walletAccounts, dex, scan,
                   lookups>>

\* getTokenLargestAccounts returns: nothing to look up when the list is empty,
\* else one owner lookup per account, all issued at once (Promise.all)
LargestReturns ==
    /\ pc = "largest"
    /\ \E amounts \in SeqsUpTo(LargestAmounts, MaxLargest) :
        LET values == [i \in 1..Len(amounts) |->
                          [address |-> i, uiAmount |-> amounts[i]]]
        IN  /\ largest' = Returned(values)
            /\ IF Len(values) = 0
               THEN /\ agg' = AggReturn(<<>>, TRUE)
                    /\ res' = AfterAggregate(req, mint, AggReturn(<<>>, TRUE))
                    /\ calls' = Answer(calls)
                    /\ pc' = "done"
                    /\ UNCHANGED lookups
               ELSE /\ lookups' = [i \in 1..Len(values) |-> Pending]
                    /\ calls' = Issue("ownerLookup", Len(values))
                    /\ pc' = "lookups"
                    /\ UNCHANGED <<agg, res>>
    /\ UNCHANGED <<req, mint, mintReply, balance, walletAccounts, dex, scan>>

\* results that are paired with the accounts in the reverse order
ParsedInfosReversed(ps) == [i \in 1..Len(ps) |-> ps[Len(ps) + 1 - i].info]

\* the array Promise.all resolves to: the result of the i-th promise at index
\* i, whenever that promise was fulfilled
ParsedInfos(ps) == [i \in 1..Len(ps) |-> ps[i].info]

\* a join that waits for every lookup and takes a rejection for an empty result
PromiseAllIgnoringRejections(ps) ==
    IF \A i \in 1..Len(ps) : ps[i].st # "pending" THEN "fulfilled"
    ELSE "pending"

\* a join that is over with the first lookup that returns
PromiseAllFirstFulfilled(ps) ==
    IF \E i \in 1..Len(ps) : ps[i].st = "rejected" THEN "rejected"
    ELSE IF \E i \in 1..Len(ps) : ps[i].st = "fulfilled" THEN "fulfilled"
    ELSE "pending"

\* Promise.all over the lookups: rejected as soon as one of them is, fulfilled
\* when all of them are
PromiseAll(ps) ==
    IF \E i \in 1..Len(ps) : ps[i].st = "rejected" THEN "rejected"
    ELSE IF \A i \in 1..Len(ps) : ps[i].st = "fulfilled" THEN "fulfilled"
    ELSE "pending"

RejectionOf(ps) ==
    LET i == CHOOSE i \in 1..Len(ps) : ps[i].st = "rejected" IN ps[i].error

\* the fallback after `await Promise.all(...)`
FallbackOutcomeInto(map, values, ps) ==
    CASE PromiseAll(ps) = "rejected" -> AggThrow(RejectionOf(ps))
      [] PromiseAll(ps) = "fulfilled" ->
            AggReturn(AggregateLargestInto(map, values, ParsedInfos(ps)), TRUE)
      [] OTHER -> NoAgg

FallbackOutcome(values, ps) ==
    FallbackOutcomeInto(holdersMap(<<>>), values, ps)

\* the handler goes on once the promise of Promise.all has settled
Settle(ps) ==
    LET a == FallbackOutcome(largest.value, ps)
    IN  IF a.outcome = "none"
        THEN UNCHANGED <<agg, res, calls, pc>>
        ELSE /\ agg' = a
             /\ res' = AfterAggregate(req, mint, a)
             /\ calls' = Answer(calls)
             /\ pc' = "done"

\* one owner lookup returns; when it is the last one, Promise.all fulfils and
\* the fallback aggregates
LookupFulfils ==
    /\ pc = "lookups"
    /\ \E idx \in 1..Len(lookups), info \in LookupInfos :
        /\ lookups[idx].st = "pending"
        /\ lookups' = [lookups EXCEPT ![idx] = Fulfilled(info)]
        /\ Settle(lookups')
    /\ UNCHANGED <<req, mint, mintReply, balance, walletAccounts, dex, scan,
                   largest>>

\* one owner lookup throws: Promise.all rejects at once with that error, the
\* results of the other lookups are never read
LookupRejects ==
    /\ pc = "lookups"
    /\ \E idx \in 1..Len(lookups), e \in RpcErrors :
        /\ lookups[idx].st = "pending"
        /\ lookups' = [lookups EXCEPT ![idx] = Rejected(e)]
        /\ Settle(lookups')
    /\ UNCHANGED <<req, mint, mintReply, balance, walletAccounts, dex, scan,
                   largest>>

Next ==
    \/ RejectRequest
    \/ AcceptRequest
    \/ MintThrows
    \/ MintNotFound
    \/ MintNotAMint
    \/ MintFound
    \/ BalanceReturns
    \/ BalanceThrows
    \/ TokenAccountsReturn
    \/ TokenAccountsThrow
    \/ DexReturns
    \/ DexThrows
    \/ ScanReturns
    \/ ScanThrows
    \/ LargestReturns
    \/ LargestThrows
    \/ LookupFulfils
    \/ LookupRejects

Spec == Init /\ [][Next]_vars

\* ---------------------------------------------------------------------------
\* pctOfSupply on its own: the concentration of any sorted holder list
\* ---------------------------------------------------------------------------

\* supplies the list is measured against, in whole tokens
ListSupplies == {0, 3, 5}

\* the sorted list with n3 holders of 3 tokens, n2 of 2 and n1 of 1; the
\* owner of the i-th holder is i
SortedHolders(n3, n2, n1) ==
    [i \in 1..(n3 + n2 + n1) |->
        HolderAgg(i, (IF i <= n3 THEN 3 ELSE IF i <= n3 + n2 THEN 2 ELSE 1)
                        * Pow10(FracDigits))]

SortedLists ==
    {SortedHolders(n3, n2, n1) :
        n3 \in 0..MaxHolders, n2 \in 0..MaxHolders, n1 \in 0..MaxHolders}

InitConcentration ==
    /\ pc = "concentration"
    /\ req = NoRequest
    /\ \E supply \in ListSupplies :
        mint = [NoMint EXCEPT !.supply = supply * Pow10(FracDigits)]
    /\ mintReply = NoReply
    /\ balance = NoReply
    /\ walletAccounts = NoReply
    /\ dex = NoReply
    /\ scan = NoReply
    /\ largest = NoReply
    /\ lookups = <<>>
    /\ \E holders \in SortedLists :
        /\ Len(holders) <= MaxHolders
        /\ agg = AggReturn(holders, FALSE)
    /\ res = NoResponse
    /\ calls = NoCalls

\* top1 / top5 / top10 of the list
ApplyConcentration ==
    /\ pc = "concentration"
    /\ res' = Json([kind |-> "concentration",
                    concentration |-> Concentration(agg.holders, mint.supply)])
    /\ pc' = "done"
    /\ UNCHANGED <<req, mint, mintReply, balance, walletAccounts, dex, scan,
                   largest, lookups, agg, calls>>

NextConcentration == ApplyConcentration

SpecConcentration == InitConcentration /\ [][NextConcentration]_vars

\* ---------------------------------------------------------------------------
\* Two requests in flight: holder-info / whale-tracker handlers that have read
\* the mint and await the scan. Node runs each handler up to its next await,
\* so the replies of the two requests arrive in any order; every variable of
\* a handler is a function of the request here
\* ---------------------------------------------------------------------------

MaxRunRecords == 2
MaxRunLargest == 1

Runs == {1, 2}
OtherRun(r) == IF r = 1 THEN 2 ELSE 1

\* the mint both requests name: 2 decimals, 5 tokens
RunMint ==
    [decimals |-> 2, supplyRaw |-> 500, supply |-> 5 * Pow10(FracDigits),
     mintAuthority |-> NoAuthority, freezeAuthority |-> NoAuthority]

RunRequests ==
    {[NoRequest EXCEPT !.endpoint = e, !.mint = "valid"] :
        e \in {"holder-info", "whale-tracker"}}

RunRecords ==
    {TokenAccount("A", 100, 2), TokenAccount("B", 100, 2),
     TokenAccount("B", 300, 2)}
RunScanErrors == {Err(MsgScanAborted), Err(MsgNetwork)}
RunLargestAmounts == {1 * Pow10(FracDigits), 3 * Pow10(FracDigits)}
RunLookupInfos == {InfoNull, InfoToken("A"), InfoToken("B")}

\* what the call of the other request has left in its map by now
LeftByOther(r) ==
    IF agg[OtherRun(r)].outcome = "return" THEN agg[OtherRun(r)].holders
    ELSE <<>>

InitRuns ==
    /\ pc = [r \in Runs |-> "scan"]
    /\ req \in [Runs -> RunRequests]
    /\ mint = [r \in Runs |-> RunMint]
    /\ mintReply = NoReply
    /\ balance = NoReply
    /\ walletAccounts = NoReply
    /\ dex = NoReply
    /\ scan = [r \in Runs |-> NoReply]
    /\ largest = [r \in Runs |-> NoReply]
    /\ lookups = [r \in Runs |-> <<>>]
    /\ agg = [r \in Runs |-> NoAgg]
    /\ res = [r \in Runs |-> NoResponse]
    /\ calls = [r \in Runs |-> [NoCalls EXCEPT !.mintLookup = 1, !.scan = 1]]

\* aggregateHoldersForMint of request r is over with outcome a: the handler
\* of r runs to its response
RunEnds(r, a) ==
    /\ agg' = [agg EXCEPT ![r] = a]
    /\ res' = [res EXCEPT ![r] = AfterAggregate(req[r], mint[r], a)]
    /\ calls' = [calls EXCEPT ![r] = Answer(@)]
    /\ pc' = [pc EXCEPT ![r] = "done"]

RunScanReturns(r) ==
    /\ pc[r] = "scan"
    /\ \E tokenAccounts \in SeqsUpTo(RunRecords, MaxRunRecords) :
        /\ scan' = [scan EXCEPT ![r] = Returned(tokenAccounts)]
        /\ RunEnds(r, AggReturn(AggregateScanInto(holdersMap(LeftByOther(r)),
                                                  tokenAccounts), FALSE))
    /\ UNCHANGED <<req, mint, mintReply, balance, walletAccounts, dex, largest,
                   lookups>>

RunScanThrows(r) ==
    /\ pc[r] = "scan"
    /\ \E e \in RunScanErrors :
        /\ scan' = [scan EXCEPT ![r] = Threw(e)]
        /\ IF ~isScanAbortedError(e)
           THEN RunEnds(r, AggThrow(e))
           ELSE /\ calls' = [calls EXCEPT ![r].largest = @ + 1]
                /\ pc' = [pc EXCEPT ![r] = "largest"]
                /\ UNCHANGED <<agg, res>>
    /\ UNCHANGED <<req, mint, mintReply, balance, walletAccounts, dex, largest,
                   lookups>>

RunLargestThrows(r) ==
    /\ pc[r] = "largest"
    /\ largest' = [largest EXCEPT ![r] = Threw(Err(MsgNetwork))]
    /\ RunEnds(r, AggThrow(Err(MsgNetwork)))
    /\ UNCHANGED <<req, mint, mintReply, balance, walletAccounts, dex, scan,
                   lookups>>

RunLargestReturns(r) ==
    /\ pc[r] = "largest"
    /\ \E amounts \in SeqsUpTo(RunLargestAmounts, MaxRunLargest) :
        LET values == [i \in 1..Len(amounts) |->
                          [address |-> i, uiAmount |-> amounts[i]]]
        IN  /\ largest' = [largest EXCEPT ![r] = Returned(values)]
            /\ IF Len(values) = 0
               THEN /\ RunEnds(r, AggReturn(<<>>, TRUE))
                    /\ UNCHANGED lookups
               ELSE /\ lookups' = [lookups EXCEPT
                                      ![r] = [i \in 1..Len(values) |-> Pending]]
                    /\ calls' = [calls EXCEPT ![r].ownerLookup = @ + Len(values)]
                    /\ pc' = [pc EXCEPT ![r] = "lookups"]
                    /\ UNCHANGED <<agg, res>>
    /\ UNCHANGED <<req, mint, mintReply, balance, walletAccounts, dex, scan>>

\* the handler of r goes on once its Promise.all has settled
RunSettle(r, ps) ==
    LET a == FallbackOutcomeInto(holdersMap(LeftByOther(r)), largest[r].value,
                                 ps)
    IN  IF a.outcome = "none"
        THEN UNCHANGED <<agg, res, calls, pc>>
        ELSE RunEnds(r, a)

RunLookupFulfils(r) ==
    /\ pc[r] = "lookups"
    /\ \E idx \in 1..Len(lookups[r]), info \in RunLookupInfos :
        /\ lookups[r][idx].st = "pending"
        /\ lookups' = [lookups EXCEPT ![r][idx] = Fulfilled(info)]
        /\ RunSettle(r, lookups'[r])
    /\ UNCHANGED <<req, mint, mintReply, balance, walletAccounts, dex, scan,
                   largest>>

RunLookupRejects(r) ==
    /\ pc[r] = "lookups"
    /\ \E idx \in 1..Len(lookups[r]) :
        /\ lookups[r][idx].st = "pending"
        /\ lookups' = [lookups EXCEPT ![r][idx] = Rejected(Err(MsgNetwork))]
        /\ RunSettle(r, lookups'[r])
    /\ UNCHANGED <<req, mint, mintReply, balance, walletAccounts, dex, scan,
                   largest>>

NextRuns ==
    \/ \E r \in Runs : RunScanReturns(r)
    \/ \E r \in Runs : RunScanThrows(r)
    \/ \E r \in Runs : RunLargestThrows(r)
    \/ \E r \in Runs : RunLargestReturns(r)
    \/ \E r \in Runs : RunLookupFulfils(r)
    \/ \E r \in Runs : RunLookupRejects(r)

SpecRuns == InitRuns /\ [][NextRuns]_vars

\* ---------------------------------------------------------------------------
\* Properties
\* ---------------------------------------------------------------------------

RECURSIVE SumUpTo(_, _, _)
SumUpTo(f, S, n) ==
    IF n = 0 THEN 0
    ELSE (IF n \in S THEN f[n] ELSE 0) + SumUpTo(f, S, n - 1)

\* the sum of f[i] over the indices i of the sequence f that are in S
SumOver(f, S) == SumUpTo(f, S, Len(f))

Answered(endpoint) == pc = "done" /\ req.endpoint = endpoint
Succeeded(endpoint) == Answered(endpoint) /\ res.status = 200

\* the pairs of the DexScreener reply that are on solana and on raydium
QualifyingPairs ==
    {i \in 1..Len(dex.value) :
        /\ dex.value[i].chainId = "solana"
        /\ dex.value[i].dexId \in {DexRaydium, IdRaydium}}

QualifyingLiquidity ==
    SumOver([i \in 1..Len(dex.value) |->
                IF dex.value[i].hasUsd THEN dex.value[i].usd ELSE 0],
            QualifyingPairs)

\* the risk level the rule table gives for the inputs of the request
ExpectedRisk ==
    IF \/ QualifyingPairs = {}
       \/ QualifyingLiquidity < 200
       \/ mint.mintAuthority # NoAuthority
    THEN "high"
    ELSE IF QualifyingLiquidity < 1000 \/ mint.freezeAuthority # NoAuthority
    THEN "medium"
    ELSE "low"

OnePoolOf5000 ==
    /\ Cardinality(QualifyingPairs) = 1
    /\ QualifyingLiquidity = 5000

\* C1: in every token-safety-check assessment the risk level is the first
\* match of: high (no qualifying pool, or total liquidity < 200, or mint
\* authority set), medium (total liquidity < 1000, or freeze authority set),
\* low; one qualifying pool of 5000 with both authorities null is low, with
\* the freeze authority set it is medium, and no qualifying pool is high.
C1_RiskPrecedence ==
    Succeeded("token-safety-check") =>
        /\ res.body.riskLevel = ExpectedRisk
        /\ (OnePoolOf5000 /\ mint.mintAuthority = NoAuthority
                /\ mint.freezeAuthority = NoAuthority)
              => res.body.riskLevel = "low"
        /\ (OnePoolOf5000 /\ mint.mintAuthority = NoAuthority
                /\ mint.freezeAuthority # NoAuthority)
              => res.body.riskLevel = "medium"
        /\ (QualifyingPairs = {} /\ mint.mintAuthority = NoAuthority
                /\ mint.freezeAuthority = NoAuthority)
              => res.body.riskLevel = "high"

\* a pool of 5000 and a frozen-able mint: the medium rule decides
C1_Witness ==
    /\ Succeeded("token-safety-check")
    /\ OnePoolOf5000
    /\ mint.mintAuthority = NoAuthority
    /\ mint.freezeAuthority # NoAuthority
    /\ res.body.riskLevel = "medium"

\* C2: whenever aggregateHoldersForMint returns, on the primary and on the
\* fallback path, no two entries of the holder list have the same owner and
\* every entry has uiAmount > 0.
C2_OneEntryPerOwnerPositive ==
    agg.outcome = "return" =>
        /\ \A i, j \in 1..Len(agg.holders) :
              agg.holders[i].owner = agg.holders[j].owner => i = j
        /\ \A i \in 1..Len(agg.holders) : agg.holders[i].uiAmount > 0

\* the scan returned two accounts of A and an empty account of B
C2_Witness ==
    /\ agg.outcome = "return"
    /\ scan.outcome = "return"
    /\ Len(scan.value) = 3
    /\ \E i, j, k \in 1..3 :
        /\ i # j
        /\ scan.value[i].owner = "A" /\ scan.value[i].amount > 0
        /\ scan.value[j].owner = "A" /\ scan.value[j].amount > 0
        /\ scan.value[k].owner = "B" /\ scan.value[k].amount = 0
    /\ Len(agg.holders) = 1

\* the records of the scan result that belong to owner o
RecordsOf(o) ==
    {i \in 1..Len(scan.value) :
        scan.value[i].type = "account" /\ scan.value[i].owner = o}

RawTotal(o) ==
    SumOver([i \in 1..Len(scan.value) |-> scan.value[i].amount], RecordsOf(o))

HolderOf(o) ==
    {i \in 1..Len(agg.holders) : agg.holders[i].owner = o}

\* C3: on the primary path, for every owner the holder's uiAmount is the sum
\* of amountRaw / 10^decimals over the owner's records, an owner is in the
\* list exactly when one of its records has a non-zero amount, and raw
\* amounts 100, 200, 300 at decimals 2 give 6.00.
C3_PrimarySums ==
    (agg.outcome = "return" /\ scan.outcome = "return") =>
        \A o \in Owners :
            /\ HolderOf(o) # {}
                  <=> \E i \in RecordsOf(o) : scan.value[i].amount # 0
            /\ \A h \in HolderOf(o) :
                  agg.holders[h].uiAmount * Pow10(mint.decimals)
                      = RawTotal(o) * Pow10(FracDigits)
            /\ (/\ mint.decimals = 2
                /\ Cardinality(RecordsOf(o)) = 3
                /\ {scan.value[i].amount : i \in RecordsOf(o)} = {100, 200, 300})
                  => \E h \in HolderOf(o) :
                        agg.holders[h].uiAmount = 6 * Pow10(FracDigits)

\* three records of A with 100, 200 and 300 at decimals 2
C3_Witness ==
    /\ agg.outcome = "return"
    /\ scan.outcome = "return"
    /\ mint.decimals = 2
    /\ Cardinality(RecordsOf("A")) = 3
    /\ {scan.value[i].amount : i \in RecordsOf("A")} = {100, 200, 300}
    /\ agg.holders = <<HolderAgg("A", 6 * Pow10(FracDigits))>>

\* the scan was rejected with the resource-limit signal
ResourceLimitRejected ==
    scan.outcome = "throw" /\ scan.error \in {Err(MsgScanAborted), Err(MsgExceeded)}

\* the largest accounts whose lookup found a token account of owner o
LargestOf(o) ==
    {i \in 1..Len(largest.value) :
        /\ i <= Len(lookups)
        /\ lookups[i].st = "fulfilled"
        /\ lookups[i].info = InfoToken(o)}

LargestTotal(o) ==
    SumOver([i \in 1..Len(largest.value) |-> largest.value[i].uiAmount],
            LargestOf(o))

\* C4: a result of aggregateHoldersForMint has usedFallback = TRUE exactly
\* when the full scan was rejected with the resource-limit signal, and its
\* holders then come from the largest-accounts query only; a rejected scan
\* always leads to that query, and after a successful scan the query (and any
\* owner lookup) is never issued.
C4_FallbackFlag ==
    /\ agg.outcome = "return" =>
          /\ agg.usedFallback <=> ResourceLimitRejected
          /\ agg.usedFallback =>
                /\ largest.outcome = "return"
                /\ scan.value = <<>>
                /\ \A i \in 1..Len(agg.holders) :
                      agg.holders[i].uiAmount = LargestTotal(agg.holders[i].owner)
    /\ ResourceLimitRejected => calls.largest = 1
    /\ scan.outcome = "return" =>
          /\ agg.outcome = "return" /\ ~agg.usedFallback
          /\ calls.largest = 0 /\ calls.ownerLookup = 0
          /\ largest.outcome = "none"

\* the scan exceeded the limit and the two largest accounts gave two holders
C4_Witness ==
    /\ scan = Threw(Err(MsgExceeded))
    /\ agg.outcome = "return"
    /\ agg.usedFallback
    /\ Len(agg.holders) = 2

\* C5: a token-safety-check whose mint was read and whose market-data query
\* failed is answered with an assessment that has no pool, no liquidity and
\* risk high.
C5_DexFailureDegrades ==
    (Answered("token-safety-check") /\ dex.outcome = "throw") =>
        /\ res.status = 200
        /\ ~res.body.hasRaydiumPool
        /\ res.body.totalLiquidityUsd = 0
        /\ res.body.riskLevel = "high"

\* the fallback was entered and failed
FallbackFailed ==
    /\ ResourceLimitRejected
    /\ \/ largest.outcome = "throw"
       \/ \E i \in 1..Len(lookups) : lookups[i].st = "rejected"

HolderEndpoints == {"holder-info", "whale-tracker"}

\* C6: in holder-info and whale-tracker a rejected scan whose fallback
\* succeeds is answered with success, and a rejected scan whose fallback fails
\* with any error is answered with SCAN_ABORTED, never with a generic failure.
C6_FallbackFailureIsScanAborted ==
    (pc = "done" /\ req.endpoint \in HolderEndpoints /\ ResourceLimitRejected) =>
        /\ (agg.outcome = "return") => res.status = 200
        /\ FallbackFailed => (res.status = 400 /\ res.error = "SCAN_ABORTED")

\* a scan failure that is no resource-limit rejection
OtherScanFailure == scan.outcome = "throw" /\ ~ResourceLimitRejected

\* C7: when the full scan fails with anything but the resource-limit
\* rejection, aggregateHoldersForMint throws that same error, has issued the
\* scan once and the largest-accounts query (and any owner lookup) never, and
\* returns no holder list.
C7_OtherScanFailurePropagates ==
    OtherScanFailure =>
        /\ agg.outcome = "throw"
        /\ agg.error = scan.error
        /\ agg.holders = <<>>
        /\ calls.scan = 1
        /\ calls.largest = 0
        /\ calls.ownerLookup = 0
        /\ res.status # 200

\* the scan failed with "scan failed", which only resembles the rejection
C7_Witness ==
    /\ scan = Threw(Err(MsgScanFailed))
    /\ agg = AggThrow(Err(MsgScanFailed))
    /\ res.status = 500

\* C8: in fallback mode, once one of the owner lookups has failed,
\* aggregateHoldersForMint has thrown: it returns no holder list, whatever
\* the other lookups returned, and the response carries none.
C8_NoPartialFallback ==
    (\E i \in 1..Len(lookups) : lookups[i].st = "rejected") =>
        /\ agg.outcome = "throw"
        /\ agg.holders = <<>>
        /\ res.status # 200

\* one lookup found owner A for a non-empty account, the other one failed
C8_Witness ==
    /\ Len(lookups) = 2
    /\ \E i, j \in 1..2 :
        /\ lookups[i] = Fulfilled(InfoToken("A"))
        /\ largest.value[i].uiAmount > 0
        /\ lookups[j].st = "rejected"
    /\ agg.outcome = "throw"

Conc == res.body.concentration
Pct100 == [num |-> 100, den |-> 1]

SnapshotTotal ==
    IF scan.outcome = "return"
    THEN SumOver([i \in 1..Len(scan.value) |->
                     Normalize(scan.value[i].amount, scan.value[i].decimals)],
                 1..Len(scan.value))
    ELSE SumOver([i \in 1..Len(largest.value) |-> largest.value[i].uiAmount],
                 1..Len(largest.value))

C10_DegenerateSupply ==
    (pc = "done" /\ req.endpoint \in HolderEndpoints /\ agg.outcome = "return"
        /\ mint.supply <= 0) =>
        /\ res.status = 200
        /\ PctIsZero(Conc.top1) /\ PctIsZero(Conc.top5) /\ PctIsZero(Conc.top10)
        /\ Conc.top1.den > 0 /\ Conc.top5.den > 0 /\ Conc.top10.den > 0
        /\ req.endpoint = "whale-tracker" => res.body.whales = <<>>

\* supply 0, two aggregated holders and a negative threshold
C10_Witness ==
    /\ Succeeded("whale-tracker")
    /\ mint.supply = 0
    /\ Len(agg.holders) = 2
    /\ req.minPct = QNum(-1)
    /\ res.body.whales = <<>>

\* the threshold a whale-tracker request asks for: 1 when minPct is absent
EffectiveMinPct == IF req.minPct.kind = "absent" THEN 1 ELSE req.minPct.val

\* the aggregated holders whose share of the supply reaches the threshold
QualifyingHolders ==
    {i \in 1..Len(agg.holders) :
        agg.holders[i].uiAmount * 100 >= EffectiveMinPct * mint.supply}

OwnersOf(hs) == [k \in 1..Len(hs) |-> hs[k].owner]

EffectiveLimit == IF req.limit.kind = "num" THEN req.limit.val ELSE 20

\* the qualifying holders in the descending order of the aggregated list
QualifyingList ==
    LET Qualifies(h) == h.uiAmount * 100 >= EffectiveMinPct * mint.supply
    IN  SelectSeq(agg.holders, Qualifies)

\* C12: for every integer limit supplied to whale-tracker (20 when absent or
\* not a number), the whale list has at most max(limit, 0) entries and is a
\* prefix of the descending list of qualifying holders.
C12_WhalesWithinLimit ==
    (Succeeded("whale-tracker") /\ mint.supply > 0
        /\ req.minPct.kind # "garbage") =>
        LET w == res.body.whales
        IN  /\ Len(w) <= Max2(EffectiveLimit, 0)
            /\ Len(w) <= Len(QualifyingList)
            /\ \A k \in 1..Len(w) :
                    /\ w[k].owner = QualifyingList[k].owner
                    /\ w[k].uiAmount = QualifyingList[k].uiAmount

\* C13: the concentration of a whale-tracker response is that of the full
\* aggregated list: the response to any other whale-tracker request over the
\* same mint and the same aggregated holders, differing in minPct or limit,
\* carries the same top1 / top5 / top10.
C13_ConcentrationSameForEveryQuery ==
    Succeeded("whale-tracker") =>
        \A q \in Requests("whale-tracker") :
            WhaleConcentration(agg.holders, WhalesOf(q, mint, agg.holders),
                               mint.supply)
                = res.body.concentration

\* a threshold that leaves a holder out of the whale list, while the
\* concentration still counts that holder
C13_Witness ==
    /\ Succeeded("whale-tracker") /\ mint.supply > 0
    /\ req.minPct = QNum(50)
    /\ Len(agg.holders) = 2 /\ Len(res.body.whales) = 1
    /\ ~PctLeq(Conc.top5, Conc.top1)

\* the sum of the first min(K, length) amounts of the list the analyzer was given
FirstSum(K) ==
    SumOver([i \in 1..Len(agg.holders) |-> agg.holders[i].uiAmount],
            1..Min2(K, Len(agg.holders)))

\* the percentage p is exactly part / supply * 100
IsPctOf(p, part) == p.den > 0 /\ p.num * mint.supply = part * 100 * p.den

\* C14: with supply > 0, topK for K in {1, 5, 10} is the sum of the first
\* min(K, length) entries of the descending holder list, divided by the supply,
\* times 100; holders of 60% and 40% give 60 / 100 / 100, the empty list
\* gives 0.
C14_TopKIsPrefixSum ==
    (pc = "done" /\ res.body.kind = "concentration" /\ mint.supply > 0) =>
        LET c == res.body.concentration
            hs == agg.holders
        IN  /\ IsPctOf(c.top1, FirstSum(1))
            /\ IsPctOf(c.top5, FirstSum(5))
            /\ IsPctOf(c.top10, FirstSum(10))
            /\ hs = <<>> =>
                    c.top1.num = 0 /\ c.top5.num = 0 /\ c.top10.num = 0
            /\ (/\ Len(hs) = 2
                /\ hs[1].uiAmount * 10 = 6 * mint.supply
                /\ hs[2].uiAmount * 10 = 4 * mint.supply) =>
                    /\ c.top1 = [num |-> 60, den |-> 1]
                    /\ c.top5 = [num |-> 100, den |-> 1]
                    /\ c.top10 = [num |-> 100, den |-> 1]

\* a list longer than ten: top1, top5 and top10 all differ, and top10 leaves
\* the eleventh holder out
C14_Witness ==
    /\ pc = "done" /\ res.body.kind = "concentration" /\ mint.supply > 0
    /\ Len(agg.holders) = 11
    /\ ~PctLeq(res.body.concentration.top5, res.body.concentration.top1)
    /\ ~PctLeq(res.body.concentration.top10, res.body.concentration.top5)
    /\ ~IsPctOf(res.body.concentration.top10, FirstSum(11))

\* the input records of owner o: token accounts of the scan result on the
\* primary path, largest accounts found to be o's on the fallback path
InputRecordsOf(o) == IF scan.outcome = "return" THEN RecordsOf(o) ELSE LargestOf(o)

\* those of them that carry a non-zero amount
CountedRecordsOf(o) ==
    IF scan.outcome = "return"
    THEN {i \in RecordsOf(o) : scan.value[i].amount # 0}
    ELSE {i \in LargestOf(o) : largest.value[i].uiAmount # 0}

\* the least element of a non-empty set of indices, 0 for the empty set
First(S) == IF S = {} THEN 0 ELSE CHOOSE i \in S : \A j \in S : i <= j

\* C15 as stated: the list returned by aggregateHoldersForMint is non-increasing
\* in uiAmount, and holders of equal sums are in the order in which their
\* owners first occurred in the input records, on both paths.
C15_TiesByFirstOccurrence ==
    agg.outcome = "return" =>
        \A i, j \in 1..Len(agg.holders) : i < j =>
            /\ agg.holders[i].uiAmount >= agg.holders[j].uiAmount
            /\ agg.holders[i].uiAmount = agg.holders[j].uiAmount =>
                    First(InputRecordsOf(agg.holders[i].owner))
                        < First(InputRecordsOf(agg.holders[j].owner))

\* C15 amended: the list is non-increasing in uiAmount, and holders of equal
\* sums are in the order in which their owners first occurred with a non-zero
\* amount in the input records (the order of insertion into the map), on both
\* paths.
C15_TiesByFirstCountedOccurrence ==
    agg.outcome = "return" =>
        \A i, j \in 1..Len(agg.holders) : i < j =>
            /\ agg.holders[i].uiAmount >= agg.holders[j].uiAmount
            /\ agg.holders[i].uiAmount = agg.holders[j].uiAmount =>
                    First(CountedRecordsOf(agg.holders[i].owner))
                        < First(CountedRecordsOf(agg.holders[j].owner))

\* two holders of equal sums, the second of which owns the first record of
\* the scan result, an account with balance 0
C15_Witness ==
    /\ agg.outcome = "return" /\ scan.outcome = "return"
    /\ Len(agg.holders) = 2
    /\ agg.holders[1].uiAmount = agg.holders[2].uiAmount
    /\ First(InputRecordsOf(agg.holders[2].owner)) = 1
    /\ First(CountedRecordsOf(agg.holders[2].owner)) = 3

\* C16: veryLowLiquidity is set exactly when the total liquidity is below 200
\* and lowLiquidity exactly when it is below 1000, so 200 is low but not very
\* low and 1000 is neither; veryLowLiquidity implies lowLiquidity.
C16_LiquidityFlags ==
    Succeeded("token-safety-check") =>
        LET b == res.body
        IN  /\ b.veryLowLiquidity <=> QualifyingLiquidity < 200
            /\ b.lowLiquidity <=> QualifyingLiquidity < 1000
            /\ QualifyingLiquidity = 200 =>
                    b.lowLiquidity /\ ~b.veryLowLiquidity
            /\ QualifyingLiquidity = 1000 =>
                    ~b.lowLiquidity /\ ~b.veryLowLiquidity
            /\ b.veryLowLiquidity => b.lowLiquidity

\* two qualifying pools of 200 and 800: a total of exactly 1000, not low
C16_Witness ==
    /\ Succeeded("token-safety-check")
    /\ Cardinality(QualifyingPairs) = 2
    /\ QualifyingLiquidity = 1000
    /\ ~res.body.lowLiquidity /\ ~res.body.veryLowLiquidity

\* C17: every assessment lists exactly three reasons, in the order mint
\* authority, freeze authority, pools, for every combination of inputs; the
\* third names the pool count and the total liquidity exactly when there is
\* at least one qualifying pool.
C17_ThreeReasons ==
    Succeeded("token-safety-check") =>
        LET r == res.body.reasons
        IN  /\ Len(r) = 3
            /\ r[1].topic = "mint" /\ r[2].topic = "freeze" /\ r[3].topic = "pool"
            /\ r[1].text = IF mint.mintAuthority = NoAuthority
                           THEN "Mint authority revoked (immutable supply)."
                           ELSE "Mint authority is still set (mintable token)."
            /\ r[2].text = IF mint.freezeAuthority = NoAuthority
                           THEN "Freeze authority revoked (no freeze control)."
                           ELSE "Freeze authority is still set."
            /\ QualifyingPairs # {} =>
                    /\ r[3].text = "Raydium pools found"
                    /\ r[3].count = Cardinality(QualifyingPairs)
                    /\ r[3].total = QualifyingLiquidity
            /\ QualifyingPairs = {} =>
                    r[3].text = "No Raydium pools found on DexScreener."

\* both authorities set and pairs on other venues only: three reasons still
C17_Witness ==
    /\ Succeeded("token-safety-check")
    /\ mint.mintAuthority # NoAuthority /\ mint.freezeAuthority # NoAuthority
    /\ Len(dex.value) = 2 /\ QualifyingPairs = {}
    /\ Len(res.body.reasons) = 3
    /\ res.body.reasons[3].text = "No Raydium pools found on DexScreener."

\* liquidity.usd of the i-th pair of the reply, 0 when missing
LiquidityOf(i) == IF dex.value[i].hasUsd THEN dex.value[i].usd ELSE 0

\* the earliest qualifying pair of maximum liquidity
EarliestLargest ==
    First({i \in QualifyingPairs :
            \A j \in QualifyingPairs : LiquidityOf(j) <= LiquidityOf(i)})

\* C18: totalLiquidityUsd is the sum of liquidityUsd over the qualifying pools
\* only (chain solana, venue raydium), a missing liquidityUsd counting 0;
\* largestPool is the qualifying pool of maximum liquidity, the earliest one
\* among equals, and null exactly when there is no qualifying pool.
C18_LiquidityAggregation ==
    Succeeded("token-safety-check") =>
        LET b == res.body
        IN  /\ b.totalLiquidityUsd = QualifyingLiquidity
            /\ b.largestPool = NoPool <=> QualifyingPairs = {}
            /\ QualifyingPairs # {} =>
                    /\ b.largestPool.pairAddress = EarliestLargest
                    /\ b.largestPool.liquidityUsd = LiquidityOf(EarliestLargest)

\* two qualifying pools of the same liquidity: the first is the largest
C18_Witness ==
    /\ Succeeded("token-safety-check")
    /\ QualifyingPairs = {1, 2}
    /\ LiquidityOf(1) = LiquidityOf(2) /\ LiquidityOf(1) > 0
    /\ res.body.largestPool.pairAddress = 1

\* the mint lookup threw, found no account, or found an account that is no mint
MintLookupFailed ==
    \/ mintReply.outcome = "throw"
    \/ mintReply.outcome = "return" /\ mintReply.value \in {NoAccount, NotAMint}

MintEndpoints == {"token-safety-check", "holder-info", "whale-tracker"}

\* C19: in token-safety-check, holder-info and whale-tracker, once the mint
\* lookup has thrown, found no account or found an account that is no mint,
\* the request is over with a failure response and stays so: no market-data
\* query, no account scan, no largest-accounts query and no owner lookup is
\* ever issued, and no assessment or holder list is returned.
C19_MintFailureEndsRequest ==
    (req.endpoint \in MintEndpoints /\ MintLookupFailed) =>
        /\ pc = "done"
        /\ res.status \in {400, 404, 500}
        /\ res.body = NoBody
        /\ calls.mintLookup = 1 /\ calls.responses = 1
        /\ calls.dex = 0 /\ calls.scan = 0
        /\ calls.largest = 0 /\ calls.ownerLookup = 0
        /\ dex = NoReply /\ scan = NoReply /\ largest = NoReply
        /\ agg = NoAgg

\* holder-info on an address that holds no SPL mint
C19_Witness ==
    /\ req.endpoint = "holder-info"
    /\ mintReply = Returned(NotAMint)
    /\ res = Fail(400, "Account is not an SPL mint")

\* the number of calls made to the ledger and to the market-data collaborator
CollaboratorCalls ==
    calls.balance + calls.tokenAccounts + calls.mintLookup + calls.dex
        + calls.scan + calls.largest + calls.ownerLookup

\* C20: in every operation that takes a token or account identifier
\* (wallet-info, token-info, cbs-metrics, token-safety-check, holder-info,
\* whale-tracker) a request whose identifier is missing or malformed is
\* rejected without any call to the ledger or the market-data collaborator.
C20_BadIdentifierRejectedBeforeCalls ==
    (req.endpoint \in Endpoints /\ req.mint \in {"missing", "invalid"}) =>
        /\ pc = "done"
        /\ res.status = 400 /\ res.body = NoBody
        /\ CollaboratorCalls = 0

\* ---------------------------------------------------------------------------
\* C21, C22: the aggregation keeps nothing between calls (under SpecRuns)
\* ---------------------------------------------------------------------------

BothDone == \A r \in Runs : pc[r] = "done"

\* the collaborators gave both calls the same answers
SameAnswers ==
    /\ scan[1] = scan[2]
    /\ largest[1] = largest[2]
    /\ lookups[1] = lookups[2]

SoloOutcome(r) ==
    IF scan[r].outcome = "return"
    THEN AggReturn(AggregateScan(scan[r].value), FALSE)
    ELSE IF ~isScanAbortedError(scan[r].error) THEN AggThrow(scan[r].error)
    ELSE IF largest[r].outcome = "throw" THEN AggThrow(largest[r].error)
    ELSE IF Len(largest[r].value) = 0 THEN AggReturn(<<>>, TRUE)
    ELSE FallbackOutcome(largest[r].value, lookups[r])

DegradedNotes ==
    {"RPC scan aborted for full holder list. Falling back to largest token accounts only. Percentages are approximate.",
     "RPC scan aborted for full holder list. Whale data is based on largest token accounts only (approximate)."}

\* the request was answered from the largest accounts
AnsweredFromFallback == scan.outcome = "throw" /\ largest.outcome = "return"

\* C23: the note of a successful holder-info or whale-tracker response is one
\* of the two texts that say "largest token accounts only" and "approximate"
\* exactly when the holder list came from the fallback; after a full scan the
\* note is another text.
C23_DegradedModeReported ==
    \A e \in HolderEndpoints :
        Succeeded(e) =>
            /\ AnsweredFromFallback <=> res.body.note \in DegradedNotes
            /\ AnsweredFromFallback <=> agg.usedFallback

\* a holder-info response with one holder that was resolved by the fallback
C23_Witness ==
    /\ Succeeded("holder-info")
    /\ AnsweredFromFallback
    /\ res.body.totalHolders = 1
    /\ res.body.note \in DegradedNotes

\* ---------------------------------------------------------------------------
\* C24: the fan-out of the owner lookups and the join on them
\* ---------------------------------------------------------------------------

\* the fallback has issued its owner lookups
LookupsIssued == Len(lookups) > 0

\* one lookup per largest account, issued together: no lookup is added once
\* some have completed
OneLookupPerAccount ==
    LookupsIssued =>
        /\ largest.outcome = "return"
        /\ Len(lookups) = Len(largest.value)
        /\ calls.ownerLookup = Len(largest.value)

AllLookupsCompleted == \A i \in 1..Len(lookups) : lookups[i].st # "pending"

\* C24 as claimed: in fallback mode one owner lookup per largest account is
\* issued, all of them before any completes, and the aggregation has neither
\* a result nor a failure while one of the lookups is still pending.
C24_NothingBeforeEveryLookupCompletes ==
    /\ OneLookupPerAccount
    /\ (LookupsIssued /\ agg.outcome # "none") => AllLookupsCompleted

\* C24 amended: one owner lookup per largest account, all issued together;
\* while the join is pending there is neither a result nor a response; a
\* result is returned only when every lookup has returned; a failure is the
\* error of a lookup that was rejected, and is returned at that rejection,
\* whatever the state of the other lookups.
C24_ResultAfterEveryLookup ==
    /\ OneLookupPerAccount
    /\ pc = "lookups" => (agg = NoAgg /\ res = NoResponse)
    /\ (LookupsIssued /\ agg.outcome = "return") =>
            \A i \in 1..Len(lookups) : lookups[i].st = "fulfilled"
    /\ (LookupsIssued /\ agg.outcome = "throw") =>
            \E i \in 1..Len(lookups) :
                /\ lookups[i].st = "rejected"
                /\ agg.error = lookups[i].error
                /\ \A j \in 1..Len(lookups) :
                        lookups[j].st = "rejected" => j = i

\* one of two lookups is rejected and the aggregation fails while the other
\* lookup is still pending
C24_Witness ==
    /\ Len(lookups) = 2
    /\ pc = "done"
    /\ agg.outcome = "throw"
    /\ \E i \in 1..2 : lookups[i].st = "pending"

\* ---------------------------------------------------------------------------
\* C25: what the fallback attributes
\* ---------------------------------------------------------------------------

\* C25: whenever the fallback returns a holder list, the sum of uiAmount over
\* the holders is the sum of the amounts of the largest-accounts list (zero
\* amounts add nothing): every account with a non-zero amount is attributed
\* to a holder.
C25_FallbackAttributesEveryAccount ==
    (agg.outcome = "return" /\ agg.usedFallback) =>
        SumAmounts(agg.holders)
            = SumOver([i \in 1..Len(largest.value) |-> largest.value[i].uiAmount],
                      1..Len(largest.value))

\* ---------------------------------------------------------------------------
\* C26: the concentration of holder-info and the query parameters
\* ---------------------------------------------------------------------------

\* C26: the concentration of a holder-info response depends on the aggregated
\* holder list and the supply only: any other holder-info request (another
\* min, another limit) over the same snapshot gets the same top1 / top5 /
\* top10.
C26_HolderConcentrationSameForEveryQuery ==
    Succeeded("holder-info") =>
        \A q \in Requests("holder-info") :
            HolderInfoBody(q, mint, agg.holders, agg.usedFallback).concentration
                = res.body.concentration

\* ---------------------------------------------------------------------------
\* C27: the fallback and the order in which the lookups complete
\* ---------------------------------------------------------------------------

\* the largest account i counts for owner o: its amount is not zero and the
\* lookup issued for account i returned a token account of o
CountsFor(i, o) ==
    /\ largest.value[i].uiAmount # 0
    /\ lookups[i].st = "fulfilled"
    /\ lookups[i].info = InfoToken(o)

\* C27: the holder list of the fallback is fixed by the largest accounts and,
\* for each of them, the reply of the lookup issued for that same account, in
\* whatever order the lookups completed: an owner is listed exactly when an
\* account counts for it, with the sum of the amounts of its own accounts, in
\* non-increasing order and, for equal sums, in the order of the first
\* counting account.
C27_FallbackListFixedByReplies ==
    (agg.outcome = "return" /\ LookupsIssued) =>
        /\ \A i \in 1..Len(largest.value), o \in Owners :
                CountsFor(i, o) => HolderOf(o) # {}
        /\ \A k \in 1..Len(agg.holders) :
                LET h == agg.holders[k]
                IN  /\ HolderOf(h.owner) = {k}
                    /\ \E i \in 1..Len(largest.value) : CountsFor(i, h.owner)
                    /\ h.uiAmount = LargestTotal(h.owner)
        /\ \A k, l \in 1..Len(agg.holders) : k < l =>
                LET g == agg.holders[k]
                    h == agg.holders[l]
                IN  \/ g.uiAmount > h.uiAmount
                    \/ /\ g.uiAmount = h.uiAmount
                       /\ First(CountedRecordsOf(g.owner))
                            < First(CountedRecordsOf(h.owner))

\* the first account holds less than the second and they have different
\* owners: the owner of the second account comes first, each with the amount
\* of its own account
C27_Witness ==
    /\ agg.outcome = "return"
    /\ Len(lookups) = 2
    /\ largest.value[1].uiAmount < largest.value[2].uiAmount
    /\ CountsFor(1, "A")
    /\ CountsFor(2, "B")
    /\ agg.holders = <<HolderAgg("B", largest.value[2].uiAmount),
                       HolderAgg("A", largest.value[1].uiAmount)>>

\* ---------------------------------------------------------------------------
\* C28: one response per request
\* ---------------------------------------------------------------------------

AnalysisEndpoints == {"holder-info", "whale-tracker", "token-safety-check"}

\* the handler is at an await: the call it waits for has been issued and has
\* not been answered; at the join, no lookup was rejected and one is pending
AwaitingReply ==
    CASE pc = "mintLookup" -> calls.mintLookup = 1 /\ mintReply = NoReply
      [] pc = "dex" -> calls.dex = 1 /\ dex = NoReply
      [] pc = "scan" -> calls.scan = 1 /\ scan = NoReply
      [] pc = "largest" -> calls.largest = 1 /\ largest = NoReply
      [] pc = "lookups" ->
            /\ PromiseAll(lookups) = "pending"
            /\ \E i \in 1..Len(lookups) : lookups[i].st = "pending"
      [] OTHER -> FALSE

\* C28: a request to holder-info, whale-tracker or token-safety-check has no
\* response while its handler awaits a collaborator, and a handler that has
\* not responded is waiting for a reply that is still due (it never ends
\* without a response); once the handler is over the request has exactly one
\* response, on every path.
C28_ExactlyOneResponse ==
    req.endpoint \in AnalysisEndpoints =>
        /\ calls.responses = (IF pc = "done" THEN 1 ELSE 0)
        /\ (res = NoResponse) <=> (pc # "done")
        /\ pc # "done" => AwaitingReply

\* a whale-tracker request whose scan was rejected and whose fallback failed
\* at a lookup, answered once
C28_Witness ==
    /\ Answered("whale-tracker")
    /\ FallbackFailed
    /\ LookupsIssued
    /\ res.status = 400
    /\ calls.responses = 1

\* ---------------------------------------------------------------------------
\* C29: the whale list against minPct and top1
\* ---------------------------------------------------------------------------

\* a whole number of percent as a percentage
PctOf(n) == [num |-> n, den |-> 1]

\* C29: in a whale-tracker response with supply > 0 the percentageOfSupply of
\* every whale is at least the minPct of the response and at most
\* concentration.top1, and the first whale of a non-empty list is the largest
\* aggregated holder, with percentageOfSupply equal to concentration.top1.
C29_WhalesBetweenMinPctAndTop1 ==
    (Succeeded("whale-tracker") /\ mint.supply > 0) =>
        LET w == res.body.whales
            top1 == res.body.concentration.top1
            minPct == res.body.minPct
        IN  /\ \A k \in 1..Len(w) :
                /\ ~minPct.nan
                /\ PctLeq(PctOf(minPct.val), w[k].percentageOfSupply)
                /\ PctLeq(w[k].percentageOfSupply, top1)
            /\ w # <<>> =>
                /\ w[1].owner = agg.holders[1].owner
                /\ w[1].uiAmount = agg.holders[1].uiAmount
                /\ w[1].percentageOfSupply = top1
                /\ PctLeq(top1, w[1].percentageOfSupply)

\* a threshold of 20 and two whales, the second one below top1
C29_Witness ==
    /\ Succeeded("whale-tracker") /\ mint.supply > 0
    /\ req.minPct = QNum(20)
    /\ Len(res.body.whales) = 2
    /\ ~PctLeq(res.body.concentration.top1,
               res.body.whales[2].percentageOfSupply)

\* ---------------------------------------------------------------------------
\* C30: the risk level is monotone in each signal
\* ---------------------------------------------------------------------------

\* low < medium < high
Rank(level) ==
    CASE level = "low" -> 1
      [] level = "medium" -> 2
      [] level = "high" -> 3

\* the mints a second assessment may be about: the authorities of the mint of
\* the request set or not
OtherMints ==
    {[mint EXCEPT !.mintAuthority = a, !.freezeAuthority = f] :
        a \in AuthorityValues, f \in AuthorityValues}

\* the pair lists of a second assessment: the one of the request, the empty
\* one and every list of one pair (totals 0, 200, 800 and 5000, or no
\* qualifying pool)
OtherPairLists ==
    {dex.value} \cup {PairList(shapes) : shapes \in SeqsUpTo(PairShapes, 1)}

\* no signal of assessment b2 is better than in b1: an authority set in b1 is
\* set in b2, b2 has a qualifying pool only if b1 has, and then no more
\* liquidity
NoSignalBetter(b1, b2) ==
    /\ ~b1.immutableMint => ~b2.immutableMint
    /\ b1.canFreeze => b2.canFreeze
    /\ b2.hasRaydiumPool =>
            /\ b1.hasRaydiumPool
            /\ b2.totalLiquidityUsd <= b1.totalLiquidityUsd

\* C30: for the assessment of the request and any second assessment that
\* differs from it by a mint authority set, a freeze authority set, a lower
\* total liquidity or no qualifying pool (one of them or several), the risk
\* level of the second is not lower (low < medium < high).
C30_RiskMonotone ==
    Succeeded("token-safety-check") =>
        \A m2 \in OtherMints, pairs2 \in OtherPairLists :
            LET b2 == SafetyBody(m2, pairs2)
            IN  NoSignalBetter(res.body, b2) =>
                    Rank(b2.riskLevel) >= Rank(res.body.riskLevel)

\* an assessment of low risk, for which setting the freeze authority gives
\* medium and taking the pool away gives high
C30_Witness ==
    /\ Succeeded("token-safety-check")
    /\ res.body.riskLevel = "low"
    /\ SafetyBody([mint EXCEPT !.freezeAuthority = "Auth"], dex.value).riskLevel
            = "medium"
    /\ SafetyBody(mint, <<>>).riskLevel = "high"

====
